---- MODULE Spec2Model ----
(***************************************************************************)
(* Model of the CV / job-description analysis service.                     *)
(*                                                                         *)
(*   - the sliding-window rate limiter (src/src/utils/rateLimiter.ts),     *)
(*     driven directly through its two public methods (specification       *)
(*     SpecLimiter, the way src/unnamed/part_001 drives it);               *)
(*   - the analyzeCandidateMatch pipeline of the router                    *)
(*     (src/src/routers/analysisRouter.ts) with the AI service             *)
(*     (src/src/services/aiService.ts) and the PDF service                 *)
(*     (src/src/services/pdfService.ts), several calls running             *)
(*     concurrently on the single-threaded event loop (specification Spec);*)
(*   - three pure functions applied on their own to bounded sets of        *)
(*     inputs: AIService.parseAIResponse (SpecParse),                      *)
(*     PDFService.validatePDF (SpecValidate) and PDFService.cleanText      *)
(*     (SpecClean).                                                        *)
(*                                                                         *)
(* Time is in milliseconds, as Date.now() returns it.  Every Date.now()    *)
(* in the source is a separate read of the clock: the clock may advance    *)
(* between two reads made by one synchronous function.                     *)
(***************************************************************************)
EXTENDS Integers, Sequences, FiniteSets, TLC

\* ------------------------------------------------------------------------
\* Program constants of the rate limiter
\* ------------------------------------------------------------------------
minuteLimit == 20
hourLimit == 300
minuteWindow == 60 * 1000
hourWindow == 60 * 60 * 1000

DefaultIdentifier == "default"

MinuteLimitError == "Rate limit exceeded: 20 requests per minute"
HourLimitError == "Rate limit exceeded: 300 requests per hour"
NoError == "undefined"

\* ------------------------------------------------------------------------
\* Bounds of the model
\* ------------------------------------------------------------------------
\* Largest advance (ms) of the clock between two Date.now() reads of one
\* synchronous function.
MaxDrift == 1
\* Number of direct calls of the limiter's methods in SpecLimiter.
MaxOps == 3
\* Number of analyze calls in Spec.
NumCalls == 2
\* Longest text cleanText is applied to on its own, in characters.
MaxTextLen == 5

\* ------------------------------------------------------------------------
\* The clock: the instants at which the model reads it
\* ------------------------------------------------------------------------
\* Number of full one-minute bursts that leave room for exactly one more
\* burst below the hour limit.
StartBursts == (hourLimit \div minuteLimit) - 1
\* The instant at which the model starts.
StartTime == StartBursts * minuteWindow

\* The clock readings the model draws from: the start, the two instants
\* around the expiry of a timestamp recorded at the start (59999 and 60000
\* ms later) and the two instants around the expiry of a timestamp recorded
\* at instant 0 from the hour window.
Instants ==
    { StartTime,
      StartTime + minuteWindow - 1,
      StartTime + minuteWindow,
      hourWindow - 1,
      hourWindow }

\* What a later Date.now() may return when an earlier read of the same
\* synchronous function returned t.
LaterReads(t) == { u \in Instants : t <= u /\ u <= t + MaxDrift }

Max(a, b) == IF a >= b THEN a ELSE b

\* ------------------------------------------------------------------------
\* RateLimiter
\* ------------------------------------------------------------------------
Identifiers == { DefaultIdentifier, "user1" }

\* A filter that keeps a timestamp exactly windowMs old.
cleanOldRequestsInclusive(requests, windowMs, t) ==
    SelectSeq(requests, LAMBDA timestamp : t - timestamp <= windowMs)

\* requests.filter(timestamp => now - timestamp < windowMs), where t is the
\* value its own Date.now() returned.
cleanOldRequests(requests, windowMs, t) ==
    SelectSeq(requests, LAMBDA timestamp : t - timestamp < windowMs)

\* this.windows after "if (!has(identifier)) set(identifier, {requests: []})".
withWindow(ws, identifier) ==
    IF identifier \in DOMAIN ws
    THEN ws
    ELSE [i \in DOMAIN ws \cup {identifier} |->
            IF i = identifier THEN [requests |-> <<>>] ELSE ws[i]]

\* A canMakeRequest that keeps one window for everybody: the identifier is
\* dropped and the default window is checked and updated.
canMakeRequestShared(ws, identifier, t0, t1, t2) ==
    LET w0 == withWindow(ws, DefaultIdentifier)
        pruned == cleanOldRequests(w0[DefaultIdentifier].requests, hourWindow, t1)
        recentMinuteRequests == cleanOldRequests(pruned, minuteWindow, t2)
        w1 == [w0 EXCEPT ![DefaultIdentifier].requests = pruned]
    IN  IF Len(recentMinuteRequests) >= minuteLimit
        THEN [windows |-> w1, allowed |-> FALSE, error |-> MinuteLimitError]
        ELSE IF Len(pruned) >= hourLimit
        THEN [windows |-> w1, allowed |-> FALSE, error |-> HourLimitError]
        ELSE [windows |-> [w0 EXCEPT ![DefaultIdentifier].requests = Append(pruned, t0)],
              allowed |-> TRUE, error |-> NoError]

\* A canMakeRequest that records the timestamp of a rejected call too.
canMakeRequestCountingRejected(ws, identifier, t0, t1, t2) ==
    LET w0 == withWindow(ws, identifier)
        pruned == cleanOldRequests(w0[identifier].requests, hourWindow, t1)
        recentMinuteRequests == cleanOldRequests(pruned, minuteWindow, t2)
        w1 == [w0 EXCEPT ![identifier].requests = Append(pruned, t0)]
    IN  IF Len(recentMinuteRequests) >= minuteLimit
        THEN [windows |-> w1, allowed |-> FALSE, error |-> MinuteLimitError]
        ELSE IF Len(pruned) >= hourLimit
        THEN [windows |-> w1, allowed |-> FALSE, error |-> HourLimitError]
        ELSE [windows |-> w1, allowed |-> TRUE, error |-> NoError]

\* canMakeRequest(identifier) on the window map ws.  t0 is the Date.now() of
\* its first line, t1 the one read by the hour prune, t2 the one read by the
\* minute filter.  Gives the new window map and the returned object.
canMakeRequest(ws, identifier, t0, t1, t2) ==
    LET w0 == withWindow(ws, identifier)
        pruned == cleanOldRequests(w0[identifier].requests, hourWindow, t1)
        recentMinuteRequests == cleanOldRequests(pruned, minuteWindow, t2)
        recentHourRequests == pruned
        w1 == [w0 EXCEPT ![identifier].requests = pruned]
    IN  IF Len(recentMinuteRequests) >= minuteLimit
        THEN [windows |-> w1, allowed |-> FALSE, error |-> MinuteLimitError]
        ELSE IF Len(recentHourRequests) >= hourLimit
        THEN [windows |-> w1, allowed |-> FALSE, error |-> HourLimitError]
        ELSE [windows |-> [w0 EXCEPT ![identifier].requests = Append(pruned, t0)],
              allowed |-> TRUE, error |-> NoError]

\* A getRemainingRequests that, like canMakeRequest, creates the window of
\* an unknown identifier and stores the pruned array.
getRemainingRequestsPruning(ws, identifier, t1, t2) ==
    LET w0 == withWindow(ws, identifier)
        pruned == cleanOldRequests(w0[identifier].requests, hourWindow, t2)
        recentMinuteRequests == cleanOldRequests(pruned, minuteWindow, t1)
    IN  [windows |-> [w0 EXCEPT ![identifier].requests = pruned],
         minute |-> Max(0, minuteLimit - Len(recentMinuteRequests)),
         hour |-> Max(0, hourLimit - Len(pruned))]

\* getRemainingRequests(identifier) on the window map ws.  t1 is the clock
\* read of the minute filter, t2 the one of the hour filter.  Gives the
\* window map after the call (the method assigns nothing) and the returned
\* object.
getRemainingRequests(ws, identifier, t1, t2) ==
    IF identifier \notin DOMAIN ws
    THEN [windows |-> ws, minute |-> minuteLimit, hour |-> hourLimit]
    ELSE LET window == ws[identifier]
             recentMinuteRequests == cleanOldRequests(window.requests, minuteWindow, t1)
             recentHourRequests == cleanOldRequests(window.requests, hourWindow, t2)
         IN  [windows |-> ws,
              minute |-> Max(0, minuteLimit - Len(recentMinuteRequests)),
              hour |-> Max(0, hourLimit - Len(recentHourRequests))]

\* ------------------------------------------------------------------------
\* PDFService
\* ------------------------------------------------------------------------
\* A Buffer is modelled by its first (at most four) bytes and its length.
PdfHeader == <<"%", "P", "D", "F">>
maxSize == 10 * 1024 * 1024

Buffers ==
    { [head |-> PdfHeader, length |-> 9],
      [head |-> <<"f", "a", "k", "e">>, length |-> 16],
      [head |-> PdfHeader, length |-> maxSize + 1] }

\* A validatePDF without the size check.
validatePDFHeaderOnly(buffer) ==
    IF buffer.head # PdfHeader
    THEN [isValid |-> FALSE, error |-> "Invalid PDF format"]
    ELSE [isValid |-> TRUE, error |-> NoError]

\* A validatePDF that rejects a buffer of exactly maxSize bytes.
validatePDFBelowMaxSize(buffer) ==
    IF buffer.head # PdfHeader
    THEN [isValid |-> FALSE, error |-> "Invalid PDF format"]
    ELSE IF buffer.length >= maxSize
    THEN [isValid |-> FALSE, error |-> "PDF file too large (max 10MB)"]
    ELSE [isValid |-> TRUE, error |-> NoError]

\* validatePDF(buffer); buffer.head is buffer.slice(0, 4), the first four
\* bytes or all of them when the buffer is shorter.
validatePDF(buffer) ==
    LET pdfHeader == buffer.head
    IN  IF pdfHeader # PdfHeader
        THEN [isValid |-> FALSE, error |-> "Invalid PDF format"]
        ELSE IF buffer.length > maxSize
        THEN [isValid |-> FALSE, error |-> "PDF file too large (max 10MB)"]
        ELSE [isValid |-> TRUE, error |-> NoError]

\* Text is a sequence of characters.
CR == "\r"
LF == "\n"
TAB == "\t"
SPACE == " "
\* The characters \s matches and trim() removes, among those of the model.
IsWhitespace(ch) == ch \in { SPACE, TAB, CR, LF }

RECURSIVE replaceLineBreaks(_)
\* text.replace(/\r\n|\r|\n/g, ' ')
replaceLineBreaks(text) ==
    IF text = <<>> THEN <<>>
    ELSE IF Len(text) >= 2 /\ text[1] = CR /\ text[2] = LF
    THEN <<SPACE>> \o replaceLineBreaks(SubSeq(text, 3, Len(text)))
    ELSE IF text[1] \in { CR, LF }
    THEN <<SPACE>> \o replaceLineBreaks(Tail(text))
    ELSE <<text[1]>> \o replaceLineBreaks(Tail(text))

RECURSIVE dropWhitespace(_)
\* The text without its leading whitespace.
dropWhitespace(text) ==
    IF text # <<>> /\ IsWhitespace(text[1]) THEN dropWhitespace(Tail(text)) ELSE text

RECURSIVE collapseWhitespace(_)
\* text.replace(/\s+/g, ' ')
collapseWhitespace(text) ==
    IF text = <<>> THEN <<>>
    ELSE IF IsWhitespace(text[1])
    THEN <<SPACE>> \o collapseWhitespace(dropWhitespace(text))
    ELSE <<text[1]>> \o collapseWhitespace(Tail(text))

RECURSIVE dropTrailingWhitespace(_)
dropTrailingWhitespace(text) ==
    IF text # <<>> /\ IsWhitespace(text[Len(text)])
    THEN dropTrailingWhitespace(SubSeq(text, 1, Len(text) - 1))
    ELSE text

\* String.prototype.trim
trim(text) == dropTrailingWhitespace(dropWhitespace(text))

\* A cleanText without the final trim.
cleanTextUntrimmed(text) == collapseWhitespace(replaceLineBreaks(text))

cleanText(text) == trim(collapseWhitespace(replaceLineBreaks(text)))

\* What PDFService.extractText may give for a buffer that passed
\* validatePDF: a failure of the parser, a document with text, a document
\* whose text is only whitespace.
Extractions ==
    { [ok |-> FALSE, text |-> <<>>, pageCount |-> 0],
      [ok |-> TRUE, text |-> <<SPACE, "a", CR, LF, LF, "b", SPACE>>, pageCount |-> 2],
      [ok |-> TRUE, text |-> <<LF, LF, SPACE, CR, LF>>, pageCount |-> 1] }

ExtractionError == "Failed to extract text from PDF: bad XRef entry"

\* ------------------------------------------------------------------------
\* Configuration
\* ------------------------------------------------------------------------
\* USE_WOLF_ENDPOINT is 'true' or '1' (useWolf), GEMINI_WOLF_AUTH_TOKEN and
\* GEMINI_API_KEY are set to a non-empty string or not.
Envs ==
    { [useWolf |-> TRUE, wolfToken |-> TRUE, apiKey |-> FALSE],
      [useWolf |-> TRUE, wolfToken |-> FALSE, apiKey |-> TRUE],
      [useWolf |-> FALSE, wolfToken |-> FALSE, apiKey |-> TRUE],
      [useWolf |-> FALSE, wolfToken |-> TRUE, apiKey |-> FALSE] }

\* A validateAIConfiguration that never throws.
validateAIConfigurationLax(e) ==
    [ok |-> TRUE, message |-> NoError, useWolf |-> e.useWolf,
     token |-> e.useWolf /\ e.wolfToken]

validateAIConfiguration(e) ==
    IF e.useWolf
    THEN IF ~e.wolfToken
         THEN [ok |-> FALSE, message |-> "Wolf endpoint auth token not configured",
               useWolf |-> TRUE, token |-> FALSE]
         ELSE [ok |-> TRUE, message |-> NoError, useWolf |-> TRUE, token |-> TRUE]
    ELSE IF ~e.apiKey
         THEN [ok |-> FALSE, message |-> "Google Gemini API key not configured",
               useWolf |-> FALSE, token |-> FALSE]
         ELSE [ok |-> TRUE, message |-> NoError, useWolf |-> FALSE, token |-> FALSE]

\* new AIService(authToken): the credential each variant will send (TRUE: a
\* non-empty string).
AIService(e, authToken) ==
    IF e.useWolf
    THEN [useWolfEndpoint |-> TRUE, authToken |-> authToken \/ e.wolfToken, apiKey |-> FALSE]
    ELSE [useWolfEndpoint |-> FALSE, authToken |-> FALSE, apiKey |-> e.apiKey]

\* The credential the request of analyzeCandidate carries.
credentialSent(service) ==
    IF service.useWolfEndpoint THEN service.authToken ELSE service.apiKey

\* ------------------------------------------------------------------------
\* AIService.analyzeCandidate
\* ------------------------------------------------------------------------
\* The caller of an analyze call: the router's input carries the two files
\* and nothing that identifies the caller.
NoIdentifier == "none"
Callers == { NoIdentifier, "user1" }

\* An analyzeCandidate that passes the caller's identifier on.
admissionIdentifierOfCaller(callerIdentifier) ==
    IF callerIdentifier = NoIdentifier THEN DefaultIdentifier ELSE callerIdentifier

\* The identifier analyzeCandidate checks: rateLimiter.canMakeRequest().
admissionIdentifier(callerIdentifier) == DefaultIdentifier

\* The identifier AIService.getRemainingRequests reads:
\* rateLimiter.getRemainingRequests().
remainingIdentifier(callerIdentifier) == DefaultIdentifier

\* ------------------------------------------------------------------------
\* JavaScript values, JSON texts and JSON.parse
\* ------------------------------------------------------------------------
\* A string is a sequence of pieces; a piece is one decimal digit, one
\* whitespace character or a run of other characters (no brace, bracket,
\* quote, colon or comma).
Digits == { "0", "1", "2", "3", "4", "5", "6", "7", "8", "9" }
DigitValue(d) ==
    CASE d = "0" -> 0 [] d = "1" -> 1 [] d = "2" -> 2 [] d = "3" -> 3
      [] d = "4" -> 4 [] d = "5" -> 5 [] d = "6" -> 6 [] d = "7" -> 7
      [] d = "8" -> 8 [] OTHER -> 9

\* A JavaScript number: an integer or NaN.
Num(n) == [nan |-> FALSE, n |-> n]
NaN == [nan |-> TRUE, n |-> 0]

\* A JavaScript value, as JSON.parse builds it (and undefined, the value of
\* a property that is not there).  The members of an object and the
\* elements of an array are kept in order, a member with its key.
JValue(type, num, str, items) == [type |-> type, num |-> num, str |-> str, items |-> items]
Undefined == JValue("undefined", 0, <<>>, <<>>)
JNull == JValue("null", 0, <<>>, <<>>)
JTrue == JValue("true", 0, <<>>, <<>>)
JFalse == JValue("false", 0, <<>>, <<>>)
JNum(n) == JValue("number", n, <<>>, <<>>)
JStr(str) == JValue("string", 0, str, <<>>)
Element(v) == [key |-> <<>>, value |-> v]
Member(key, v) == [key |-> key, value |-> v]
JArr(values) == JValue("array", 0, <<>>, [i \in 1..Len(values) |-> Element(values[i])])
JObj(members) == JValue("object", 0, <<>>, members)

\* A text is a sequence of tokens: the punctuation of JSON, a quoted string,
\* a number, the literals true, false and null, or a word of prose.
Tok(t) == [t |-> t, s |-> <<>>, n |-> 0]
StringTok(str) == [t |-> "string", s |-> str, n |-> 0]
NumberTok(n) == [t |-> "number", s |-> <<>>, n |-> n]
WordTok(word) == [t |-> "word", s |-> <<word>>, n |-> 0]

RECURSIVE parseValue(_, _)
RECURSIVE parseElements(_, _, _)
RECURSIVE parseMembers(_, _, _)

SyntaxError == [ok |-> FALSE, value |-> Undefined, next |-> 0]

\* The JSON value that starts at token i of the text, and the position
\* after it.
parseValue(text, i) ==
    IF i > Len(text) THEN SyntaxError
    ELSE LET tok == text[i]
         IN  CASE tok.t = "string" -> [ok |-> TRUE, value |-> JStr(tok.s), next |-> i + 1]
               [] tok.t = "number" -> [ok |-> TRUE, value |-> JNum(tok.n), next |-> i + 1]
               [] tok.t = "true" -> [ok |-> TRUE, value |-> JTrue, next |-> i + 1]
               [] tok.t = "false" -> [ok |-> TRUE, value |-> JFalse, next |-> i + 1]
               [] tok.t = "null" -> [ok |-> TRUE, value |-> JNull, next |-> i + 1]
               [] tok.t = "[" ->
                    IF i + 1 <= Len(text) /\ text[i + 1].t = "]"
                    THEN [ok |-> TRUE, value |-> JArr(<<>>), next |-> i + 2]
                    ELSE parseElements(text, i + 1, <<>>)
               [] tok.t = "{" ->
                    IF i + 1 <= Len(text) /\ text[i + 1].t = "}"
                    THEN [ok |-> TRUE, value |-> JObj(<<>>), next |-> i + 2]
                    ELSE parseMembers(text, i + 1, <<>>)
               [] OTHER -> SyntaxError

\* The elements of an array from token i on, up to its "]".
parseElements(text, i, elements) ==
    LET r == parseValue(text, i)
    IN  IF ~r.ok \/ r.next > Len(text) THEN SyntaxError
        ELSE LET all == Append(elements, Element(r.value))
             IN  CASE text[r.next].t = "," -> parseElements(text, r.next + 1, all)
                   [] text[r.next].t = "]" ->
                        [ok |-> TRUE, value |-> JValue("array", 0, <<>>, all),
                         next |-> r.next + 1]
                   [] OTHER -> SyntaxError

\* The members of an object from token i on, up to its "}".
parseMembers(text, i, members) ==
    IF i + 1 > Len(text) \/ text[i].t # "string" \/ text[i + 1].t # ":"
    THEN SyntaxError
    ELSE LET r == parseValue(text, i + 2)
         IN  IF ~r.ok \/ r.next > Len(text) THEN SyntaxError
             ELSE LET all == Append(members, Member(text[i].s, r.value))
                  IN  CASE text[r.next].t = "," -> parseMembers(text, r.next + 1, all)
                        [] text[r.next].t = "}" ->
                             [ok |-> TRUE, value |-> JObj(all), next |-> r.next + 1]
                        [] OTHER -> SyntaxError

\* JSON.parse(text): the value when the whole text is one JSON value, a
\* SyntaxError otherwise.
JSONparse(text) ==
    LET r == parseValue(text, 1)
    IN  IF r.ok /\ r.next = Len(text) + 1
        THEN [ok |-> TRUE, value |-> r.value]
        ELSE [ok |-> FALSE, value |-> Undefined]

\* response.match(/\{[\s\S]*\}/): the text from its first "{" through its
\* last "}", when a "}" follows a "{".
matchBraces(response) ==
    LET opens == { i \in 1..Len(response) : response[i].t = "{" }
        first == CHOOSE i \in opens : \A j \in opens : i <= j
        closes == { i \in 1..Len(response) : response[i].t = "}" /\ i > first }
        lastClose == CHOOSE i \in closes : \A j \in closes : j <= i
    IN  IF opens = {} \/ closes = {}
        THEN [matched |-> FALSE, text |-> <<>>]
        ELSE [matched |-> TRUE, text |-> SubSeq(response, first, lastClose)]

\* value.name: the value of the last member with that key for an object,
\* undefined for an object without it and for a number, string, boolean or
\* array (none of the names read is a property of those).  Not defined for
\* null: reading a property of null throws a TypeError.
Get(value, name) ==
    LET at == { i \in 1..Len(value.items) : value.items[i].key = name }
    IN  IF value.type # "object" \/ at = {} THEN Undefined
        ELSE value.items[CHOOSE i \in at : \A j \in at : j <= i].value

\* ToBoolean
Truthy(value) ==
    CASE value.type \in { "undefined", "null", "false" } -> FALSE
      [] value.type = "number" -> value.num # 0
      [] value.type = "string" -> value.str # <<>>
      [] OTHER -> TRUE

\* a || b
Or(a, b) == IF Truthy(a) THEN a ELSE b

RECURSIVE decimal(_)
\* The number a sequence of digits denotes.
decimal(digits) ==
    IF digits = <<>> THEN 0
    ELSE 10 * decimal(SubSeq(digits, 1, Len(digits) - 1)) + DigitValue(digits[Len(digits)])

\* ToNumber of a string: 0 for an empty or blank string, the number for a
\* string of digits (blanks around it allowed), NaN for any other string of
\* the model.
StringToNumber(str) ==
    LET body == trim(str)
    IN  IF body = <<>> THEN Num(0)
        ELSE IF \A i \in 1..Len(body) : body[i] \in Digits THEN Num(decimal(body))
        ELSE NaN

RECURSIVE ToNumber(_)
\* ToNumber, as Math.min and Math.max apply it to an argument.  An array is
\* converted through its string: "" when empty, the string of its element
\* when it has one (nothing for null), a text with commas otherwise.
ToNumber(value) ==
    CASE value.type = "number" -> Num(value.num)
      [] value.type = "string" -> StringToNumber(value.str)
      [] value.type = "true" -> Num(1)
      [] value.type \in { "false", "null" } -> Num(0)
      [] value.type = "array" ->
            IF Len(value.items) = 0 THEN Num(0)
            ELSE IF Len(value.items) > 1 THEN NaN
            ELSE LET element == value.items[1].value
                 IN  IF element.type \in { "null", "undefined" } THEN Num(0)
                     ELSE IF element.type \in { "true", "false" } THEN NaN
                     ELSE ToNumber(element)
      [] OTHER -> NaN        \* undefined, object

\* Math.min and Math.max of two numbers: NaN when either is NaN.
MathMin(a, b) == IF a.nan \/ b.nan THEN NaN ELSE IF a.n <= b.n THEN a ELSE b
MathMax(a, b) == IF a.nan \/ b.nan THEN NaN ELSE IF a.n >= b.n THEN a ELSE b

\* Array.isArray
IsArray(value) == value.type = "array"

\* 'Analysis completed'
SummaryPlaceholder == JStr(<<"Analysis", SPACE, "completed">>)

NoAnalysis ==
    [overallMatch |-> Num(-1), strengths |-> <<>>, weaknesses |-> <<>>,
     recommendations |-> <<>>, keyAlignments |-> <<>>, missingSkills |-> <<>>,
     summary |-> Undefined]

ParseSyntaxError == "Failed to parse AI response: Unexpected token"
ParseTypeError ==
    "Failed to parse AI response: Cannot read properties of null (reading 'overallMatch')"

\* parseAIResponse(response): the AnalysisResult it returns or the message
\* of the Error it throws.
parseAIResponse(response) ==
    LET jsonMatch == matchBraces(response)
        jsonString == IF jsonMatch.matched THEN jsonMatch.text ELSE response
        parsed == JSONparse(jsonString)
        list(name) == IF IsArray(Get(parsed.value, name))
                      THEN Get(parsed.value, name).items ELSE <<>>
    IN  IF ~parsed.ok
        THEN [ok |-> FALSE, result |-> NoAnalysis, message |-> ParseSyntaxError]
        ELSE IF parsed.value.type = "null"
        THEN [ok |-> FALSE, result |-> NoAnalysis, message |-> ParseTypeError]
        ELSE [ok |-> TRUE,
              result |->
                [overallMatch |->
                    MathMax(Num(0),
                            MathMin(Num(100),
                                    ToNumber(Or(Get(parsed.value, <<"overallMatch">>),
                                                JNum(0))))),
                 strengths |-> list(<<"strengths">>),
                 weaknesses |-> list(<<"weaknesses">>),
                 recommendations |-> list(<<"recommendations">>),
                 keyAlignments |-> list(<<"keyAlignments">>),
                 missingSkills |-> list(<<"missingSkills">>),
                 summary |-> Or(Get(parsed.value, <<"summary">>), SummaryPlaceholder)],
              message |-> NoError]

\* Two texts of the model's reply: prose around a JSON object, prose alone.
GoodReply ==
    << WordTok("Here"), Tok("{"),
       StringTok(<<"overallMatch">>), Tok(":"), NumberTok(85), Tok(","),
       StringTok(<<"strengths">>), Tok(":"), Tok("["), StringTok(<<"TypeScript">>), Tok("]"), Tok(","),
       StringTok(<<"summary">>), Tok(":"), StringTok(<<"Strong", SPACE, "match">>),
       Tok("}") >>
BadReply == << WordTok("Sorry") >>

\* The body of a GeminiResponse whose first candidate carries that text.
ResponseBody(text) ==
    JObj(<< Member(<<"candidates">>,
        JArr(<< JObj(<< Member(<<"content">>,
            JObj(<< Member(<<"parts">>,
                JArr(<< JObj(<< Member(<<"text">>, text) >>) >>)) >>)) >>) >>)) >>)

\* The bodies of a 2xx response: with a text, with an empty text, without
\* candidates, with an empty list of candidates, with no body (axios gives
\* the empty string), with the body null.
TextBody == ResponseBody(JStr(<<"reply">>))
EmptyTextBody == ResponseBody(JStr(<<>>))
NoCandidatesBody == JObj(<<>>)
EmptyCandidatesBody == JObj(<< Member(<<"candidates">>, JArr(<<>>)) >>)
NoBody == JStr(<<>>)
NullBody == JNull

\* value?.name
OptionalGet(value, name) ==
    IF value.type \in { "undefined", "null" } THEN Undefined ELSE Get(value, name)

\* value?.[0]: the first element of an array (the model's strings are not
\* indexed).
OptionalFirst(value) ==
    IF value.type = "array" /\ Len(value.items) > 0 THEN value.items[1].value
    ELSE Undefined

\* response.data.candidates?.[0]?.content?.parts?.[0]?.text.  Reading
\* .candidates of a null (or undefined) data throws a TypeError.
nestedText(data) ==
    IF data.type \in { "undefined", "null" }
    THEN [thrown |-> TRUE, value |-> Undefined]
    ELSE [thrown |-> FALSE,
          value |-> OptionalGet(OptionalFirst(OptionalGet(OptionalGet(
                        OptionalFirst(Get(data, <<"candidates">>)),
                        <<"content">>), <<"parts">>)), <<"text">>)]

\* What axios.post may end with: a 2xx response (its body, and the text the
\* body carries if any), an error response (429 or another status, with or
\* without a message in its body), no response at all, the 30000 ms timeout.
GatewayOutcomes ==
    { [kind |-> "response", status |-> 200, data |-> TextBody, text |-> GoodReply, remoteMessage |-> FALSE],
      [kind |-> "response", status |-> 200, data |-> TextBody, text |-> BadReply, remoteMessage |-> FALSE],
      [kind |-> "response", status |-> 200, data |-> EmptyTextBody, text |-> <<>>, remoteMessage |-> FALSE],
      [kind |-> "response", status |-> 200, data |-> NoCandidatesBody, text |-> <<>>, remoteMessage |-> FALSE],
      [kind |-> "response", status |-> 200, data |-> EmptyCandidatesBody, text |-> <<>>, remoteMessage |-> FALSE],
      [kind |-> "response", status |-> 200, data |-> NoBody, text |-> <<>>, remoteMessage |-> FALSE],
      [kind |-> "response", status |-> 200, data |-> NullBody, text |-> <<>>, remoteMessage |-> FALSE],
      [kind |-> "status", status |-> 429, data |-> NoBody, text |-> <<>>, remoteMessage |-> TRUE],
      [kind |-> "status", status |-> 500, data |-> NoBody, text |-> <<>>, remoteMessage |-> TRUE],
      [kind |-> "status", status |-> 500, data |-> NoBody, text |-> <<>>, remoteMessage |-> FALSE],
      [kind |-> "network", status |-> 0, data |-> NoBody, text |-> <<>>, remoteMessage |-> FALSE],
      [kind |-> "timeout", status |-> 0, data |-> NoBody, text |-> <<>>, remoteMessage |-> FALSE] }

\* `AI service error: ${error.response?.data?.message || error.message}`
serviceErrorMessage(outcome) ==
    IF outcome.remoteMessage THEN "AI service error: quota exhausted (remote message)"
    ELSE CASE outcome.kind = "status" ->
                "AI service error: Request failed with status code 500"
           [] outcome.kind = "network" -> "AI service error: Network Error"
           [] OTHER -> "AI service error: timeout of 30000ms exceeded"

NullDataError == "Cannot read properties of null (reading 'candidates')"

\* The part of analyzeCandidate after the awaited axios.post: what the
\* method returns or throws for an outcome of the request.
analyzeCandidateAfterPost(outcome) ==
    IF outcome.kind = "response"
    THEN LET aiResponse == nestedText(outcome.data)
         IN  IF aiResponse.thrown
             THEN [ok |-> FALSE, result |-> NoAnalysis, message |-> NullDataError]
             ELSE IF ~Truthy(aiResponse.value)
             THEN [ok |-> FALSE, result |-> NoAnalysis,
                   message |-> "Invalid response from AI service"]
             ELSE parseAIResponse(outcome.text)
    ELSE IF outcome.status = 429
    THEN [ok |-> FALSE, result |-> NoAnalysis,
          message |-> "Rate limit exceeded on AI service"]
    ELSE [ok |-> FALSE, result |-> NoAnalysis, message |-> serviceErrorMessage(outcome)]

\* How a request ended, for the history of a call.
outcomeLabel(outcome) ==
    IF outcome.kind = "response"
    THEN IF nestedText(outcome.data).thrown THEN "nullBody"
         ELSE IF ~Truthy(nestedText(outcome.data).value) THEN "noText"
         ELSE IF analyzeCandidateAfterPost(outcome).ok THEN "ok" ELSE "unparseable"
    ELSE IF outcome.status = 429 THEN "429" ELSE outcome.kind

\* ------------------------------------------------------------------------
\* State
\* ------------------------------------------------------------------------
VARIABLES
    now,        \* the clock, ms
    windows,    \* RateLimiter.windows: identifier -> [requests: Seq of ms]
    recorded,   \* history: identifier -> every timestamp ever pushed, in order
    last,       \* history: the most recent call of a limiter method
    ops,        \* number of direct limiter calls made (SpecLimiter)
    env,        \* process.env as read when the modules are loaded
    call,       \* the analyze calls: position, inputs, history and result
    input,      \* the argument of a function applied on its own
    output      \* what that function returned or threw

vars == <<now, windows, recorded, last, ops, env, call, input, output>>

\* No function is applied on its own.
NoInput == "none"
NoOutput == "none"

Calls == 1..NumCalls

\* The caller of call c: the odd calls come without an identifier, the even
\* ones from "user1".
CallerOf(c) == IF c % 2 = 1 THEN NoIdentifier ELSE "user1"

NoBuffer == [head |-> <<>>, length |-> 0]

\* An analyze call not yet received.
IdleCall(c) ==
    [pc |-> "idle",                 \* idle, extracting, posting, returned, done
     caller |-> CallerOf(c),
     jobDescription |-> NoBuffer, cv |-> NoBuffer,
     \* history of the call
     extractCalls |-> 0,            \* PDFService.extractText invocations
     configChecks |-> 0,            \* validateAIConfiguration invocations
     limiterChecks |-> 0,           \* rateLimiter.canMakeRequest invocations
     checkedId |-> NoIdentifier,    \* the identifier whose window was checked
     admitted |-> FALSE,
     timestamp |-> 0,               \* the timestamp recorded when admitted
     posts |-> 0,                   \* axios.post invocations
     credential |-> FALSE,          \* the request carried a credential
     gateway |-> "none",            \* how the request ended
     remoteMessage |-> FALSE,       \* the error response carried a message
     preMinute |-> 0,               \* remaining minute count when the call began
     preOldest |-> 0,               \* the oldest timestamp counted in it
     preLen |-> 0,                  \* length of the history at that moment
     readTime |-> 0, readLen |-> 0, \* clock and length when the result was read
     \* result
     status |-> "pending", code |-> "none", message |-> <<>>,
     analysis |-> NoAnalysis,
     jobDescriptionPages |-> 0, cvPages |-> 0,
     remainingRequests |-> [minute |-> 0, hour |-> 0],
     endpointUsed |-> "none"]

\* The TRPCError the mutation ends with.  (The readings taken when the call
\* began serve the result of a successful call only: they are dropped.)
Failed(c0, code, message) ==
    [c0 EXCEPT !.pc = "done", !.status = "error", !.code = code, !.message = message,
               !.preMinute = 0, !.preOldest = 0, !.preLen = 0]

NoCall ==
    [op |-> "none", id |-> DefaultIdentifier, t0 |-> 0, t1 |-> 0, t2 |-> 0,
     allowed |-> FALSE, error |-> NoError, minute |-> 0, hour |-> 0,
     prevRejected |-> FALSE, prevOldest |-> 0]

\* The oldest timestamp of the sequence younger than windowMs at instant t
\* (0 when there is none).
OldestYounger(requests, windowMs, t) ==
    LET young == { i \in 1..Len(requests) : t - requests[i] < windowMs }
    IN  IF young = {} THEN 0
        ELSE requests[CHOOSE i \in young : \A j \in young : i <= j]

\* History for a canMakeRequest(identifier): the limiter call before it was
\* a canMakeRequest of the same identifier rejected for the minute limit,
\* and the oldest timestamp that rejection counted.
RejectedBefore(identifier) ==
    /\ last.op = "canMakeRequest" /\ last.id = identifier
    /\ ~last.allowed /\ last.error = MinuteLimitError

OldestBefore(identifier) ==
    IF RejectedBefore(identifier)
    THEN OldestYounger(recorded[identifier], minuteWindow, last.t2)
    ELSE 0

\* The requests array after minuteLimit admitted calls at each of the
\* instants 0, 60000, ..., (h-1)*60000 followed by m admitted calls at
\* StartTime.
Fill(h, m) ==
    [i \in 1..(h * minuteLimit + m) |->
        IF i <= h * minuteLimit
        THEN ((i - 1) \div minuteLimit) * minuteWindow
        ELSE StartTime]

\* Request histories the limiter can have accumulated by StartTime.
SeedRequests ==
    { Fill(0, minuteLimit - 1), Fill(StartBursts, minuteLimit - 1) }

\* The window maps at StartTime: an identifier was never checked (no window)
\* or has one of the seed histories.
SeedWindows(ids) ==
    UNION { [known -> [requests : SeedRequests]] : known \in SUBSET ids }

HistoryOf(ws) ==
    [i \in Identifiers |-> IF i \in DOMAIN ws THEN ws[i].requests ELSE <<>>]

InitLimiter ==
    /\ now = StartTime
    /\ windows \in SeedWindows(Identifiers)
    /\ recorded = HistoryOf(windows)
    /\ last = NoCall
    /\ ops = 0
    /\ env = [useWolf |-> FALSE, wolfToken |-> FALSE, apiKey |-> TRUE]
    /\ call = [c \in Calls |-> IdleCall(c)]
    /\ input = NoInput /\ output = NoOutput

\* The clock advances between two handlers.
Tick ==
    /\ \E u \in Instants : u > now /\ now' = u
    /\ UNCHANGED <<windows, recorded, last, ops, env, call, input, output>>

\* rateLimiter.canMakeRequest(identifier), called directly.
CanMakeRequest(identifier) ==
    /\ ops < MaxOps
    /\ \E t1 \in LaterReads(now) : \E t2 \in LaterReads(t1) :
         LET r == canMakeRequest(windows, identifier, now, t1, t2)
         IN  /\ windows' = r.windows
             /\ recorded' = IF r.allowed
                            THEN [recorded EXCEPT ![identifier] = Append(@, now)]
                            ELSE recorded
             /\ last' = [op |-> "canMakeRequest", id |-> identifier,
                         t0 |-> now, t1 |-> t1, t2 |-> t2,
                         allowed |-> r.allowed, error |-> r.error,
                         minute |-> 0, hour |-> 0,
                         prevRejected |-> RejectedBefore(identifier),
                         prevOldest |-> OldestBefore(identifier)]
             /\ now' = t2
    /\ ops' = ops + 1
    /\ UNCHANGED <<env, call, input, output>>

\* rateLimiter.getRemainingRequests(identifier), called directly.
GetRemainingRequests(identifier) ==
    /\ ops < MaxOps
    /\ \E t0 \in LaterReads(now) : \E t1 \in LaterReads(t0) : \E t2 \in LaterReads(t1) :
         LET r == getRemainingRequests(windows, identifier, t1, t2)
         IN  /\ last' = [op |-> "getRemainingRequests", id |-> identifier,
                         t0 |-> t0, t1 |-> t1, t2 |-> t2,
                         allowed |-> FALSE, error |-> NoError,
                         minute |-> r.minute, hour |-> r.hour,
                         prevRejected |-> FALSE, prevOldest |-> 0]
             /\ windows' = r.windows
             /\ now' = t2
    /\ ops' = ops + 1
    /\ UNCHANGED <<recorded, env, call, input, output>>

NextLimiter ==
    \/ Tick
    \/ \E identifier \in Identifiers : CanMakeRequest(identifier)
    \/ \E identifier \in Identifiers : GetRemainingRequests(identifier)

SpecLimiter == InitLimiter /\ [][NextLimiter]_vars

\* The limiter with a clock that does not stop: time passes whether or not
\* the methods are called.
SpecLimiterFair == SpecLimiter /\ WF_vars(Tick)

\* ------------------------------------------------------------------------
\* The analyzeCandidateMatch mutation.  A call runs without interruption
\* from one await to the next: up to the awaited Promise.all of the two
\* extractions (Begin), from there to the awaited axios.post (ExtractDone),
\* from there to the return of analyzeCandidate (GatewayReturn), and the
\* rest of the mutation (Finish).
\* ------------------------------------------------------------------------
InitCalls ==
    /\ now = StartTime
    /\ windows \in SeedWindows({DefaultIdentifier})
    /\ recorded = HistoryOf(windows)
    /\ last = NoCall
    /\ ops = 0
    /\ env \in Envs
    /\ call = [c \in Calls |-> IdleCall(c)]
    /\ input = NoInput /\ output = NoOutput

\* A check split by a suspension point: the window map is read when call c
\* begins and the timestamp is appended to that copy after the extraction.
windowsAtCheckStale(c) ==
    [i \in DOMAIN windows |->
        [requests |-> IF i = DefaultIdentifier
                      THEN SubSeq(recorded[i], 1, call[c].preLen)
                      ELSE windows[i].requests]]

\* The window map canMakeRequest reads when call c checks admission: the
\* map as it is at that moment (the method contains no await).
windowsAtCheck(c) == windows

\* An analyzeCandidate that sends the request whatever the admission check
\* returned.
analyzeCandidateIgnoringCheck(checked, rateLimitCheck, aiService, t0) ==
    [checked EXCEPT !.pc = "posting", !.admitted = rateLimitCheck.allowed,
                    !.timestamp = IF rateLimitCheck.allowed THEN t0 ELSE 0,
                    !.posts = @ + 1,
                    !.credential = credentialSent(aiService)]

\* The part of analyzeCandidate before the awaited axios.post, for a call
\* whose admission check (made at t0) returned rateLimitCheck: the Error of
\* a rejection reaches the catch of the mutation, which reports its
\* message as INTERNAL_SERVER_ERROR; an allowed call sends the request.
analyzeCandidateUntilPost(checked, rateLimitCheck, aiService, t0) ==
    IF ~rateLimitCheck.allowed
    THEN Failed(checked, "INTERNAL_SERVER_ERROR", <<rateLimitCheck.error>>)
    ELSE [checked EXCEPT !.pc = "posting", !.admitted = TRUE,
                         !.timestamp = t0, !.posts = @ + 1,
                         !.credential = credentialSent(aiService)]

\* A mutation that counts the request against the rate limit as soon as it
\* is called, before the buffers are validated.
BeginCountingRequest(c) ==
    /\ call[c].pc = "idle"
    /\ \E jobDescription \in Buffers, cv \in Buffers :
         LET identifier == remainingIdentifier(call[c].caller)
             pre == getRemainingRequests(windows, identifier, now, now)
             c0 == [call[c] EXCEPT !.jobDescription = jobDescription, !.cv = cv,
                                   !.preMinute = pre.minute,
                                   !.preOldest = OldestYounger(recorded[identifier],
                                                               minuteWindow, now),
                                   !.preLen = Len(recorded[identifier])]
         IN  call' = [call EXCEPT ![c] =
                 IF ~validatePDF(jobDescription).isValid
                 THEN Failed(c0, "BAD_REQUEST",
                             <<"Job description PDF error: ", validatePDF(jobDescription).error>>)
                 ELSE IF ~validatePDF(cv).isValid
                 THEN Failed(c0, "BAD_REQUEST", <<"CV PDF error: ", validatePDF(cv).error>>)
                 ELSE [c0 EXCEPT !.pc = "extracting", !.extractCalls = @ + 2]]
    /\ windows' = [withWindow(windows, DefaultIdentifier)
                      EXCEPT ![DefaultIdentifier].requests = Append(@, now)]
    /\ recorded' = [recorded EXCEPT ![DefaultIdentifier] = Append(@, now)]
    /\ UNCHANGED <<now, last, ops, env, input, output>>

\* The mutation is called: both buffers are validated, then both
\* extractions are started.
Begin(c) ==
    /\ call[c].pc = "idle"
    /\ \E jobDescription \in Buffers, cv \in Buffers :
         LET identifier == remainingIdentifier(call[c].caller)
             pre == getRemainingRequests(windows, identifier, now, now)
             c0 == [call[c] EXCEPT !.jobDescription = jobDescription, !.cv = cv,
                                   !.preMinute = pre.minute,
                                   !.preOldest = OldestYounger(recorded[identifier],
                                                               minuteWindow, now),
                                   !.preLen = Len(recorded[identifier])]
             jobDescValidation == validatePDF(jobDescription)
             cvValidation == validatePDF(cv)
         IN  call' = [call EXCEPT ![c] =
                 IF ~jobDescValidation.isValid
                 THEN Failed(c0, "BAD_REQUEST",
                             <<"Job description PDF error: ", jobDescValidation.error>>)
                 ELSE IF ~cvValidation.isValid
                 THEN Failed(c0, "BAD_REQUEST", <<"CV PDF error: ", cvValidation.error>>)
                 ELSE [c0 EXCEPT !.pc = "extracting", !.extractCalls = @ + 2]]
    /\ UNCHANGED <<now, windows, recorded, last, ops, env, input, output>>

\* Both extractions have ended: the texts are cleaned and checked, the
\* configuration is validated, the AI service is created and
\* analyzeCandidate runs up to its awaited axios.post.
ExtractDone(c) ==
    /\ call[c].pc = "extracting"
    /\ \E jobDescContent \in Extractions, cvContent \in Extractions :
       \E t1 \in LaterReads(now) : \E t2 \in LaterReads(t1) :
         LET c0 == call[c]
             jobDescText == cleanText(jobDescContent.text)
             cvText == cleanText(cvContent.text)
             config == validateAIConfiguration(env)
             aiService == AIService(env, config.token)
             identifier == admissionIdentifier(c0.caller)
             rateLimitCheck == canMakeRequest(windowsAtCheck(c), identifier, now, t1, t2)
             checked == [c0 EXCEPT !.configChecks = @ + 1, !.limiterChecks = @ + 1,
                                   !.checkedId = identifier,
                                   !.jobDescriptionPages = jobDescContent.pageCount,
                                   !.cvPages = cvContent.pageCount]
         IN  IF ~jobDescContent.ok \/ ~cvContent.ok
             THEN /\ call' = [call EXCEPT ![c] =
                        Failed(c0, "INTERNAL_SERVER_ERROR", <<ExtractionError>>)]
                  /\ UNCHANGED <<now, windows, recorded, last>>
             ELSE IF trim(jobDescText) = <<>>
             THEN /\ call' = [call EXCEPT ![c] =
                        Failed(c0, "BAD_REQUEST",
                               <<"Job description PDF contains no readable text">>)]
                  /\ UNCHANGED <<now, windows, recorded, last>>
             ELSE IF trim(cvText) = <<>>
             THEN /\ call' = [call EXCEPT ![c] =
                        Failed(c0, "BAD_REQUEST", <<"CV PDF contains no readable text">>)]
                  /\ UNCHANGED <<now, windows, recorded, last>>
             ELSE IF ~config.ok
             THEN /\ call' = [call EXCEPT ![c] =
                        Failed([c0 EXCEPT !.configChecks = @ + 1],
                               "INTERNAL_SERVER_ERROR", <<config.message>>)]
                  /\ UNCHANGED <<now, windows, recorded, last>>
             ELSE /\ windows' = rateLimitCheck.windows
                  /\ recorded' = IF rateLimitCheck.allowed
                                 THEN [recorded EXCEPT ![identifier] = Append(@, now)]
                                 ELSE recorded
                  /\ last' = [op |-> "canMakeRequest", id |-> identifier,
                              t0 |-> now, t1 |-> t1, t2 |-> t2,
                              allowed |-> rateLimitCheck.allowed,
                              error |-> rateLimitCheck.error,
                              minute |-> 0, hour |-> 0,
                              prevRejected |-> RejectedBefore(identifier),
                              prevOldest |-> OldestBefore(identifier)]
                  /\ now' = t2
                  /\ call' = [call EXCEPT ![c] =
                        analyzeCandidateUntilPost(checked, rateLimitCheck, aiService, now)]
    /\ UNCHANGED <<ops, env, input, output>>

\* A gateway step that sends the request again after a remote 429.
GatewayReturnRetry(c) ==
    /\ call[c].pc = "posting"
    /\ \E outcome \in GatewayOutcomes :
         LET r == analyzeCandidateAfterPost(outcome)
             c0 == [call[c] EXCEPT !.gateway = outcomeLabel(outcome),
                                   !.remoteMessage = outcome.remoteMessage]
         IN  call' = [call EXCEPT ![c] =
                 IF r.ok
                 THEN [c0 EXCEPT !.pc = "returned", !.analysis = r.result]
                 ELSE IF outcome.status = 429 /\ c0.posts < 2
                 THEN [c0 EXCEPT !.posts = @ + 1]
                 ELSE Failed(c0, "INTERNAL_SERVER_ERROR", <<r.message>>)]
    /\ UNCHANGED <<now, windows, recorded, last, ops, env, input, output>>

\* The sequence without one occurrence of t.
WithoutOne(requests, t) ==
    LET at == { i \in 1..Len(requests) : requests[i] = t }
        i == CHOOSE j \in at : TRUE
    IN  IF at = {} THEN requests
        ELSE SubSeq(requests, 1, i - 1) \o SubSeq(requests, i + 1, Len(requests))

\* A gateway step that gives the slot back when the request failed.
GatewayReturnRefunding(c) ==
    /\ call[c].pc = "posting"
    /\ \E outcome \in GatewayOutcomes :
         LET r == analyzeCandidateAfterPost(outcome)
             c0 == [call[c] EXCEPT !.gateway = outcomeLabel(outcome),
                                   !.remoteMessage = outcome.remoteMessage]
         IN  /\ call' = [call EXCEPT ![c] =
                    IF r.ok
                    THEN [c0 EXCEPT !.pc = "returned", !.analysis = r.result]
                    ELSE Failed(c0, "INTERNAL_SERVER_ERROR", <<r.message>>)]
             /\ windows' = IF r.ok THEN windows
                           ELSE [windows EXCEPT ![DefaultIdentifier].requests =
                                    WithoutOne(@, call[c].timestamp)]
    /\ UNCHANGED <<now, recorded, last, ops, env, input, output>>

\* The awaited axios.post has ended: analyzeCandidate returns the parsed
\* analysis or throws.
GatewayReturn(c) ==
    /\ call[c].pc = "posting"
    /\ \E outcome \in GatewayOutcomes :
         LET r == analyzeCandidateAfterPost(outcome)
             c0 == [call[c] EXCEPT !.gateway = outcomeLabel(outcome),
                                   !.remoteMessage = outcome.remoteMessage]
         IN  call' = [call EXCEPT ![c] =
                 IF r.ok
                 THEN [c0 EXCEPT !.pc = "returned", !.analysis = r.result]
                 ELSE Failed(c0, "INTERNAL_SERVER_ERROR", <<r.message>>)]
    /\ UNCHANGED <<now, windows, recorded, last, ops, env, input, output>>

\* analyzeCandidate has returned: the mutation assembles the result with
\* the completion time (new Date(), the read ta) and the remaining requests.
Finish(c) ==
    /\ call[c].pc = "returned"
    /\ \E ta \in LaterReads(now) : \E t0 \in LaterReads(ta) :
       \E t1 \in LaterReads(t0) : \E t2 \in LaterReads(t1) :
         LET identifier == remainingIdentifier(call[c].caller)
             r == getRemainingRequests(windows, identifier, t1, t2)
         IN  /\ windows' = r.windows
             /\ last' = [op |-> "getRemainingRequests", id |-> identifier,
                         t0 |-> t0, t1 |-> t1, t2 |-> t2,
                         allowed |-> FALSE, error |-> NoError,
                         minute |-> r.minute, hour |-> r.hour,
                         prevRejected |-> FALSE, prevOldest |-> 0]
             /\ now' = t2
             /\ call' = [call EXCEPT ![c] =
                    [@ EXCEPT !.pc = "done", !.status = "ok",
                              !.remainingRequests = [minute |-> r.minute, hour |-> r.hour],
                              !.readTime = t1,
                              !.readLen = Len(recorded[identifier]),
                              !.endpointUsed = IF validateAIConfiguration(env).useWolf
                                               THEN "Wolf" ELSE "Google Gemini"]]
    /\ UNCHANGED <<recorded, ops, env, input, output>>

Next ==
    \/ Tick
    \/ \E c \in Calls : Begin(c)
    \/ \E c \in Calls : ExtractDone(c)
    \/ \E c \in Calls : GatewayReturn(c)
    \/ \E c \in Calls : Finish(c)

Spec == InitCalls /\ [][Next]_vars

\* ------------------------------------------------------------------------
\* parseAIResponse applied on its own to texts of the model
\* ------------------------------------------------------------------------
RECURSIVE stringify(_)
RECURSIVE stringifyItems(_, _)

\* The JSON text of a value.
stringify(value) ==
    CASE value.type = "number" -> << NumberTok(value.num) >>
      [] value.type = "string" -> << StringTok(value.str) >>
      [] value.type = "array" -> <<Tok("[")>> \o stringifyItems(value.items, FALSE) \o <<Tok("]")>>
      [] value.type = "object" -> <<Tok("{")>> \o stringifyItems(value.items, TRUE) \o <<Tok("}")>>
      [] OTHER -> << Tok(value.type) >>       \* true, false, null

stringifyItems(items, withKeys) ==
    IF items = <<>> THEN <<>>
    ELSE (IF withKeys THEN << StringTok(items[1].key), Tok(":") >> ELSE <<>>)
         \o stringify(items[1].value)
         \o (IF Len(items) > 1 THEN <<Tok(",")>> ELSE <<>>)
         \o stringifyItems(Tail(items), withKeys)

\* What the model may put under "overallMatch" (Undefined: nothing).
MatchValues ==
    { Undefined, JNum(85), JNum(150), JNum(-5), JNum(0), JNum(100),
      JStr(<<"8", "5">>), JStr(<<"high">>), JStr(<<>>),
      JTrue, JFalse, JNull, JObj(<<>>),
      JArr(<<>>), JArr(<<JNum(7)>>), JArr(<<JNum(1), JNum(2)>>) }

\* What it may put under one of the five list names.
ListValues ==
    { Undefined, JArr(<<JStr(<<"TypeScript">>)>>), JArr(<<>>),
      JStr(<<"not-a-list">>), JObj(<<>>), JNull }

\* What it may put under "summary".
SummaryValues ==
    { Undefined, JStr(<<"Strong", SPACE, "match">>), JStr(<<>>),
      JNum(5), JNull, JArr(<<JStr(<<"ok">>)>>) }

\* The member of that name, when the value is there.
MemberIf(name, value) ==
    IF value.type = "undefined" THEN <<>> ELSE << Member(name, value) >>

\* The JSON objects of the model: strengths takes one value, the four
\* other lists take another.
ReplyObject(match, strengths, others, summary) ==
    JObj(MemberIf(<<"overallMatch">>, match)
         \o MemberIf(<<"strengths">>, strengths)
         \o MemberIf(<<"weaknesses">>, others)
         \o MemberIf(<<"recommendations">>, others)
         \o MemberIf(<<"keyAlignments">>, others)
         \o MemberIf(<<"missingSkills">>, others)
         \o MemberIf(<<"summary">>, summary))

ReplyObjects ==
    { ReplyObject(match, strengths, others, summary) :
        match \in MatchValues, strengths \in ListValues,
        others \in { Undefined, JArr(<<JStr(<<"SQL">>)>>), JNum(3) },
        summary \in SummaryValues }

\* Prose the model may put before and after the JSON (a closing brace in
\* the prose after it included).
Prefixes == { <<>>, << WordTok("Here"), WordTok("you"), WordTok("go"), Tok(":") >> }
Suffixes == { <<>>, << WordTok("Done") >>, << WordTok("see"), Tok("}") >> }

\* Texts without a JSON object around them: JSON values that are no object,
\* prose, broken JSON, two objects in a row, an object inside an array, an
\* object with a key given twice.
OtherResponses ==
    { stringify(JNum(42)), stringify(JStr(<<"hello">>)), stringify(JNull),
      stringify(JTrue), stringify(JArr(<<JNum(1), JNum(2)>>)),
      stringify(JArr(<<>>)),
      << WordTok("Sorry") >>,
      << WordTok("Sorry"), Tok("{") >>,
      << Tok("}"), WordTok("Sorry"), Tok("{") >>,
      << Tok("{"), StringTok(<<"overallMatch">>), Tok(":"), Tok("}") >>,
      << Tok("{"), StringTok(<<"overallMatch">>), Tok(":"), NumberTok(50), Tok(","), Tok("}") >>,
      << Tok("{"), WordTok("overallMatch"), Tok(":"), NumberTok(50), Tok("}") >>,
      stringify(JObj(<<>>)) \o stringify(JObj(<<>>)),
      stringify(JArr(<<JObj(<<Member(<<"overallMatch">>, JNum(50))>>)>>)),
      stringify(JObj(<<Member(<<"overallMatch">>, JNum(10)),
                       Member(<<"overallMatch">>, JNum(120))>>)) }

Responses ==
    { prefix \o stringify(object) \o suffix :
        prefix \in Prefixes, object \in ReplyObjects, suffix \in Suffixes }
    \cup OtherResponses

\* Nothing but the function under study runs.
Standstill ==
    /\ now = StartTime
    /\ windows = [i \in {} |-> [requests |-> <<>>]]
    /\ recorded = HistoryOf(windows)
    /\ last = NoCall
    /\ ops = 0
    /\ env = [useWolf |-> FALSE, wolfToken |-> FALSE, apiKey |-> TRUE]
    /\ call = [c \in Calls |-> IdleCall(c)]

InitParse ==
    /\ Standstill
    /\ input \in [applied : {FALSE}, arg : Responses]
    /\ output = NoOutput

\* this.parseAIResponse(aiResponse)
ParseAIResponse ==
    /\ ~input.applied
    /\ input' = [input EXCEPT !.applied = TRUE]
    /\ output' = parseAIResponse(input.arg)
    /\ UNCHANGED <<now, windows, recorded, last, ops, env, call>>

NextParse == ParseAIResponse

SpecParse == InitParse /\ [][NextParse]_vars

\* ------------------------------------------------------------------------
\* PDFService.validatePDF applied on its own to buffers
\* ------------------------------------------------------------------------
\* The bytes the model's buffers start with.
Bytes == { "%", "P", "D", "F", "x" }

\* The sequences of at most n bytes.
BytesUpTo(n) == UNION { [1..k -> Bytes] : k \in 0..n }

\* Lengths of the buffers of four bytes and more: around the size limit, the
\* 11 MiB of the test, and small ones.
Lengths == { 4, 9, maxSize - 1, maxSize, maxSize + 1, 11 * 1024 * 1024 }

\* The buffers: shorter than four bytes (all their bytes are in head), or
\* longer with any first four bytes.
AllBuffers ==
    { [head |-> h, length |-> Len(h)] : h \in BytesUpTo(3) }
    \cup { [head |-> h, length |-> n] : h \in [1..4 -> Bytes], n \in Lengths }

InitValidate ==
    /\ Standstill
    /\ input \in [applied : {FALSE}, arg : AllBuffers]
    /\ output = NoOutput

\* PDFService.validatePDF(buffer)
ValidatePDF ==
    /\ ~input.applied
    /\ input' = [input EXCEPT !.applied = TRUE]
    /\ output' = validatePDF(input.arg)
    /\ UNCHANGED <<now, windows, recorded, last, ops, env, call>>

NextValidate == ValidatePDF

SpecValidate == InitValidate /\ [][NextValidate]_vars

\* ------------------------------------------------------------------------
\* PDFService.cleanText applied on its own, and again to its result
\* ------------------------------------------------------------------------
\* The characters of the texts: two letters and the four whitespace
\* characters.
Characters == { "a", "b", SPACE, TAB, CR, LF }

Texts == UNION { [1..k -> Characters] : k \in 0..MaxTextLen }

InitClean ==
    /\ Standstill
    /\ input \in [applied : {0}, arg : Texts]
    /\ output = [first |-> <<>>, second |-> <<>>]

\* PDFService.cleanText(text)
CleanText ==
    /\ input.applied = 0
    /\ input' = [input EXCEPT !.applied = 1]
    /\ output' = [output EXCEPT !.first = cleanText(input.arg)]
    /\ UNCHANGED <<now, windows, recorded, last, ops, env, call>>

\* PDFService.cleanText applied to the text it returned.
CleanTextAgain ==
    /\ input.applied = 1
    /\ input' = [input EXCEPT !.applied = 2]
    /\ output' = [output EXCEPT !.second = cleanText(output.first)]
    /\ UNCHANGED <<now, windows, recorded, last, ops, env, call>>

NextClean == CleanText \/ CleanTextAgain

SpecClean == InitClean /\ [][NextClean]_vars

\* ------------------------------------------------------------------------
\* Properties of the rate limiter
\* ------------------------------------------------------------------------
\* Number of timestamps of the sequence lying in the interval (lo, hi].
CountIn(requests, lo, hi) ==
    Cardinality({ i \in 1..Len(requests) : lo < requests[i] /\ requests[i] <= hi })

\* Number of timestamps of the sequence younger than windowMs at instant t.
Younger(requests, windowMs, t) == CountIn(requests, t - windowMs, t)

Timestamps(requests) == { requests[i] : i \in 1..Len(requests) }

\* The history of an identifier before the last canMakeRequest call.
BeforeLast ==
    IF last.op = "canMakeRequest" /\ last.allowed
    THEN SubSeq(recorded[last.id], 1, Len(recorded[last.id]) - 1)
    ELSE recorded[last.id]

\* C1: for every identifier, at most 20 recorded timestamps lie in any
\* 60-second interval and at most 300 in any 3600-second interval.  (An
\* interval holding the most timestamps ends at one of them, so the
\* intervals (t - window, t] ending at a recorded timestamp t decide it.)
C1_SlidingWindowBound ==
    \A id \in Identifiers : \A t \in Timestamps(recorded[id]) :
        /\ CountIn(recorded[id], t - minuteWindow, t) <= minuteLimit
        /\ CountIn(recorded[id], t - hourWindow, t) <= hourLimit

\* C2: canMakeRequest(id) called at instant t0 (the timestamp it records)
\* allows exactly when fewer than 20 recorded timestamps of id are younger
\* than 60 s and fewer than 300 younger than 3600 s at t0; a rejection
\* carries the minute message whenever the minute count is at least 20 and
\* the hour message only when the minute count is below 20 and the hour
\* count at least 300.
C2_AllowedExactlyWhenBelowLimits ==
    last.op = "canMakeRequest" =>
        LET minuteCount == Younger(BeforeLast, minuteWindow, last.t0)
            hourCount == Younger(BeforeLast, hourWindow, last.t0)
        IN  /\ last.allowed <=> (minuteCount < minuteLimit /\ hourCount < hourLimit)
            /\ minuteCount >= minuteLimit => last.error = MinuteLimitError
            /\ (minuteCount < minuteLimit /\ hourCount >= hourLimit)
                  => last.error = HourLimitError
            /\ last.allowed => last.error = NoError

\* C5: getRemainingRequests(id) changes no window (it neither prunes,
\* appends nor creates one) and returns 20 minus the number of timestamps of
\* id younger than 60 s and 300 minus the number younger than 3600 s, each
\* taken when the respective filter reads the clock and floored at 0: 20
\* and 300 for an identifier never checked, 19 and 299 when it follows the
\* first allowed check of the identifier by less than 60 s.
C5_RemainingIsPure ==
    /\ [](last.op = "getRemainingRequests" =>
            /\ last.minute =
                 Max(0, minuteLimit - Younger(recorded[last.id], minuteWindow, last.t1))
            /\ last.hour =
                 Max(0, hourLimit - Younger(recorded[last.id], hourWindow, last.t2))
            /\ (recorded[last.id] = <<>> => last.minute = 20 /\ last.hour = 300))
    /\ [][(last'.op = "getRemainingRequests" /\ ops' # ops) => windows' = windows]_vars
    /\ [][(last.op = "canMakeRequest" /\ last.allowed /\ Len(recorded[last.id]) = 1
           /\ last'.op = "getRemainingRequests" /\ last'.id = last.id /\ ops' # ops
           /\ last'.t2 - last.t0 < minuteWindow)
          => (last'.minute = 19 /\ last'.hour = 299)]_vars

\* C5 witness: getRemainingRequests returned 19 and 299 for an identifier
\* with one recorded timestamp while the other identifier, never checked,
\* still has no window.
C5_Witness ==
    /\ last.op = "getRemainingRequests"
    /\ Len(recorded[last.id]) = 1
    /\ last.minute = 19 /\ last.hour = 299
    /\ \E other \in Identifiers : other \notin DOMAIN windows

\* C6: a canMakeRequest(a), allowed or rejected, leaves the window of every
\* other identifier b as it was (present or absent, same timestamps).
C6_IdentifiersIndependent ==
    [][\A b \in Identifiers :
         (last'.op = "canMakeRequest" /\ ops' # ops /\ last'.id # b) =>
            /\ (b \in DOMAIN windows') <=> (b \in DOMAIN windows)
            /\ b \in DOMAIN windows => windows'[b] = windows[b]
            /\ recorded'[b] = recorded[b]]_vars

\* C6 witness: the minute quota of "user1" is exhausted (its last check was
\* rejected for the minute limit) while the default identifier still has no
\* window at all.
C6_Witness ==
    /\ last.op = "canMakeRequest" /\ last.id = "user1"
    /\ ~last.allowed /\ last.error = MinuteLimitError
    /\ DefaultIdentifier \notin DOMAIN windows

\* ------------------------------------------------------------------------
\* Properties of the analyze calls
\* ------------------------------------------------------------------------
LimiterErrors == { <<MinuteLimitError>>, <<HourLimitError>> }
ConfigErrors == { <<"Wolf endpoint auth token not configured">>,
                  <<"Google Gemini API key not configured">> }

\* C3: with several analyze calls in flight, every admission leaves at most
\* 20 recorded timestamps younger than 60 s (and 300 younger than 3600 s) at
\* the clock reads of that check, the admitted one included: when one slot
\* remains, no interleaving admits two calls on it.
C3_OneSlotOneAdmission ==
    (last.op = "canMakeRequest" /\ last.allowed) =>
        /\ Younger(recorded[last.id], minuteWindow, last.t2) <= minuteLimit
        /\ Younger(recorded[last.id], hourWindow, last.t1) <= hourLimit

\* C3 witness: a call that began when one slot remained was admitted and
\* waits for the gateway; another call, checked at the very instant the
\* first one recorded, was rejected for the minute limit.
C3_Witness ==
    \E c \in Calls, d \in Calls :
        /\ c # d
        /\ call[c].preMinute = 1
        /\ call[c].pc = "posting" /\ call[c].admitted
        /\ call[d].status = "error" /\ call[d].message = <<MinuteLimitError>>
        /\ last.op = "canMakeRequest" /\ ~last.allowed
        /\ last.t2 = call[c].timestamp

\* The remaining minute count at the moment the result of call c was
\* assembled, from the history.
RemainingAtRead(c) ==
    Max(0, minuteLimit
           - Younger(SubSeq(recorded[DefaultIdentifier], 1, call[c].readLen),
                     minuteWindow, call[c].readTime))

\* Between the moment call c began and the moment its result was assembled
\* no other call was admitted and no timestamp counted at the beginning,
\* nor the call's own, passed 60 s of age.
Undisturbed(c) ==
    /\ call[c].readLen = call[c].preLen + 1
    /\ call[c].readTime - call[c].timestamp < minuteWindow
    /\ \/ call[c].preMinute = minuteLimit      \* nothing was counted
       \/ call[c].readTime - call[c].preOldest < minuteWindow

\* C4 as claimed: every successful call returns a remaining minute count
\* exactly one less than the count read when the call began.
C4_AlwaysOneLess ==
    \A c \in Calls :
        call[c].status = "ok" =>
            call[c].remainingRequests.minute = call[c].preMinute - 1

\* C4 amended: a successful call returns the remaining minute count as it is
\* when the result is assembled after the gateway returned; it is one less
\* than the count read when the call began if in between no other call was
\* admitted and no counted timestamp, nor the call's own, passed 60 s of age.
C4_OneLessWhenUndisturbed ==
    \A c \in Calls :
        call[c].status = "ok" =>
            /\ call[c].remainingRequests.minute = RemainingAtRead(c)
            /\ Undisturbed(c) =>
                  call[c].remainingRequests.minute = call[c].preMinute - 1

\* C4 witness: an undisturbed successful call that began with one slot
\* remaining and returned 0, after another call was rejected meanwhile.
C4_Witness ==
    \E c \in Calls, d \in Calls :
        /\ call[c].status = "ok" /\ Undisturbed(c)
        /\ call[c].preMinute = 1 /\ call[c].remainingRequests.minute = 0
        /\ call[d].status = "error" /\ call[d].message = <<MinuteLimitError>>

\* The identifier the caller of an analyze call would be checked under.
IdentifierOfCaller(callerIdentifier) ==
    IF callerIdentifier = NoIdentifier THEN DefaultIdentifier ELSE callerIdentifier

\* C7 as claimed: the admission check of an analyze call is made against the
\* window of its caller's identifier (the default one when there is none).
C7_CheckedUnderCallerIdentifier ==
    \A c \in Calls :
        call[c].limiterChecks > 0 =>
            call[c].checkedId = IdentifierOfCaller(call[c].caller)

\* C7 amended: every analyze call is checked against the window of the
\* default identifier, whoever the caller: the limiter only ever holds that
\* window, all callers share its quota, and the remaining counts of a result
\* are those of the default identifier.
C7_CheckedUnderDefaultIdentifier ==
    /\ DOMAIN windows \subseteq { DefaultIdentifier }
    /\ \A c \in Calls :
          /\ call[c].limiterChecks > 0 => call[c].checkedId = DefaultIdentifier
          /\ call[c].status = "ok" =>
                call[c].remainingRequests.minute = RemainingAtRead(c)

\* C7 witness: a call of "user1", no call of whom was ever admitted, was
\* rejected for the minute limit of the default window.
C7_Witness ==
    \E c \in Calls :
        /\ call[c].caller = "user1"
        /\ call[c].checkedId = DefaultIdentifier
        /\ call[c].status = "error" /\ call[c].message = <<MinuteLimitError>>
        /\ \A d \in Calls : call[d].caller = "user1" => ~call[d].admitted

\* A buffer starts with %PDF and is at most 10 MiB long.
WellFormed(buffer) == buffer.head = PdfHeader /\ buffer.length <= 10 * 1024 * 1024

BufferError(buffer) ==
    IF buffer.head # PdfHeader THEN "Invalid PDF format"
    ELSE "PDF file too large (max 10MB)"

\* C8: a call with an invalid buffer has failed with BAD_REQUEST with no
\* extraction, configuration check, admission check or gateway request
\* made; the message names the job description when that is invalid and the
\* CV only when the job description is valid.
C8_InvalidBufferFailsFirst ==
    \A c \in Calls :
        (call[c].pc # "idle"
         /\ (~WellFormed(call[c].jobDescription) \/ ~WellFormed(call[c].cv))) =>
            /\ call[c].pc = "done" /\ call[c].status = "error"
            /\ call[c].code = "BAD_REQUEST"
            /\ call[c].extractCalls = 0 /\ call[c].configChecks = 0
            /\ call[c].limiterChecks = 0 /\ call[c].posts = 0
            /\ call[c].message =
                 IF ~WellFormed(call[c].jobDescription)
                 THEN <<"Job description PDF error: ", BufferError(call[c].jobDescription)>>
                 ELSE <<"CV PDF error: ", BufferError(call[c].cv)>>

\* C8 witness: a call whose two buffers are both invalid (the job
\* description too large, the CV not a PDF) failed naming the job
\* description, while another call was admitted.
C8_Witness ==
    \E c \in Calls, d \in Calls :
        /\ call[c].pc = "done"
        /\ call[c].jobDescription.length > maxSize
        /\ call[c].cv.head # PdfHeader
        /\ call[c].message = <<"Job description PDF error: ", "PDF file too large (max 10MB)">>
        /\ call[d].admitted

\* The credential of the selected endpoint variant is set.
CredentialSet == IF env.useWolf THEN env.wolfToken ELSE env.apiKey

\* C9 as claimed: no call that passed validation and extraction fails
\* because the credential is absent.
C9_NoPerRequestConfigFailure ==
    \A c \in Calls :
        (call[c].extractCalls > 0 /\ call[c].status = "error") =>
            call[c].message \notin ConfigErrors

\* C9 amended: the missing credential of the selected variant is found by
\* each analyze call, after validation, extraction and the empty-text
\* checks: the call fails with INTERNAL_SERVER_ERROR and the "not
\* configured" message of the variant before any admission check or gateway
\* request; so no request is sent without the credential.
C9_ConfigCheckedPerRequest ==
    \A c \in Calls :
        /\ (call[c].configChecks > 0 /\ ~CredentialSet) =>
              /\ call[c].pc = "done" /\ call[c].status = "error"
              /\ call[c].code = "INTERNAL_SERVER_ERROR"
              /\ call[c].message =
                    IF env.useWolf THEN <<"Wolf endpoint auth token not configured">>
                    ELSE <<"Google Gemini API key not configured">>
              /\ call[c].limiterChecks = 0 /\ call[c].posts = 0
        /\ call[c].posts > 0 => (call[c].credential /\ CredentialSet)
        /\ call[c].message \in ConfigErrors => call[c].extractCalls = 2

\* C9 witness: with the credential missing, two calls have each failed on
\* the configuration check after their extractions.
C9_Witness ==
    /\ ~CredentialSet
    /\ \A c \in Calls :
          /\ call[c].status = "error" /\ call[c].message \in ConfigErrors
          /\ call[c].extractCalls = 2 /\ call[c].configChecks = 1

FailedOutcomes ==
    { "429", "status", "network", "timeout", "noText", "nullBody", "unparseable" }

\* C10: a call makes each step at most once, the gateway request included,
\* and a request that ended in a failure has ended the call with an error
\* and no analysis; a call that has ended never moves again.
C10_NoRetry ==
    /\ [](\A c \in Calls :
            /\ call[c].posts <= 1 /\ call[c].limiterChecks <= 1
            /\ call[c].configChecks <= 1 /\ call[c].extractCalls <= 2
            /\ call[c].gateway \in FailedOutcomes =>
                  /\ call[c].pc = "done" /\ call[c].status = "error"
                  /\ call[c].code = "INTERNAL_SERVER_ERROR"
                  /\ call[c].analysis = NoAnalysis
                  /\ call[c].posts = 1)
    /\ [][\A c \in Calls : call[c].pc = "done" => call'[c] = call[c]]_vars

\* C10 witness: one call ended on a remote 429 and the other on a timeout,
\* each after exactly one request.
C10_Witness ==
    \E c \in Calls, d \in Calls :
        /\ call[c].gateway = "429" /\ call[c].pc = "done" /\ call[c].posts = 1
        /\ call[c].message = <<"Rate limit exceeded on AI service">>
        /\ call[d].gateway = "timeout" /\ call[d].pc = "done" /\ call[d].posts = 1

\* ------------------------------------------------------------------------
\* Properties of parseAIResponse
\* ------------------------------------------------------------------------
\* The JSON text parseAIResponse hands to JSON.parse: from the first "{"
\* through the last "}", or the whole text when there are no such braces.
JsonStringOf(response) ==
    IF matchBraces(response).matched THEN matchBraces(response).text ELSE response

\* A JSON object was recovered from the text.
RecoveredObject(response) ==
    /\ JSONparse(JsonStringOf(response)).ok
    /\ JSONparse(JsonStringOf(response)).value.type = "object"

\* The value the recovered object holds under a name.
Recovered(response, name) == Get(JSONparse(JsonStringOf(response)).value, name)

Clamp(n) == IF n < 0 THEN 0 ELSE IF n > 100 THEN 100 ELSE n

\* C11: for every JSON object recovered from the text, parseAIResponse
\* returns an overallMatch inside [0,100]: the clamped number when the
\* object holds a number there, 0 when it holds nothing or a value that is
\* no number (string, boolean, object, array, null).
C11_OverallMatchClamped ==
    (input.applied /\ RecoveredObject(input.arg)) =>
        LET value == Recovered(input.arg, <<"overallMatch">>)
            overallMatch == output.result.overallMatch
        IN  /\ output.ok
            /\ ~overallMatch.nan
            /\ 0 <= overallMatch.n /\ overallMatch.n <= 100
            /\ overallMatch.n = IF value.type = "number" THEN Clamp(value.num) ELSE 0

ListNames ==
    { <<"strengths">>, <<"weaknesses">>, <<"recommendations">>,
      <<"keyAlignments">>, <<"missingSkills">> }

\* The field of an AnalysisResult of that name.
ListField(result, name) ==
    CASE name = <<"strengths">> -> result.strengths
      [] name = <<"weaknesses">> -> result.weaknesses
      [] name = <<"recommendations">> -> result.recommendations
      [] name = <<"keyAlignments">> -> result.keyAlignments
      [] OTHER -> result.missingSkills

\* C12: every AnalysisResult parseAIResponse returns has all its fields,
\* whatever the parsed JSON holds: each of the five list fields is the
\* parsed sequence, or empty when the parsed value is no sequence, and
\* summary is a string, the placeholder when the parsed JSON has none.
C12_FullyPopulated ==
    (input.applied /\ output.ok) =>
        /\ DOMAIN output.result =
             { "overallMatch", "strengths", "weaknesses", "recommendations",
               "keyAlignments", "missingSkills", "summary" }
        /\ \A name \in ListNames :
             ListField(output.result, name) =
                IF Recovered(input.arg, name).type = "array"
                THEN Recovered(input.arg, name).items ELSE <<>>
        /\ output.result.summary.type = "string"
        /\ Recovered(input.arg, <<"summary">>).type = "undefined" =>
              output.result.summary = SummaryPlaceholder

\* The messages that start with 'Failed to parse AI response'.
ParseErrors == { ParseSyntaxError, ParseTypeError }

\* C13: parseAIResponse returns a result exactly when a JSON object was
\* recovered from the text (from the first "{" through the last "}", or the
\* whole text when there are no braces); for any other text, one that is
\* not JSON or one that is a JSON number, string, boolean, null or array,
\* it throws the 'Failed to parse AI response' error.
C13_ResultOnlyForObject ==
    input.applied =>
        /\ output.ok <=> RecoveredObject(input.arg)
        /\ ~output.ok => output.message \in ParseErrors

\* ------------------------------------------------------------------------
\* Properties of the failure paths of an analyze call
\* ------------------------------------------------------------------------
\* 'AI service error: ' with the message axios gives an error of that kind.
TransportMessage(kind) ==
    CASE kind = "status" -> "AI service error: Request failed with status code 500"
      [] kind = "network" -> "AI service error: Network Error"
      [] OTHER -> "AI service error: timeout of 30000ms exceeded"

\* C14: a request that ended has put its call in exactly one class: a 429
\* gives 'Rate limit exceeded on AI service' (not a message of the local
\* limiter); another error status, a network failure or the timeout gives
\* 'AI service error: ' followed by the remote message when there is one and
\* by the transport message otherwise; a 2xx response without the nested
\* text gives 'Invalid response from AI service'; a text that cannot be
\* parsed gives the parse error; any other response gives a result.
C14_OutcomeClasses ==
    \A c \in Calls :
        LET g == call[c].gateway
            m == call[c].message
        IN  /\ g = "ok" => call[c].status # "error"
            /\ g \in FailedOutcomes => call[c].status = "error"
            /\ g = "429" => m = <<"Rate limit exceeded on AI service">> /\ m \notin LimiterErrors
            /\ g \in { "status", "network", "timeout" } =>
                  m = IF call[c].remoteMessage
                      THEN <<"AI service error: quota exhausted (remote message)">>
                      ELSE << TransportMessage(g) >>
            /\ g \in { "noText", "nullBody" } => m = <<"Invalid response from AI service">>
            /\ g = "unparseable" => m \in { <<ParseSyntaxError>>, <<ParseTypeError>> }

\* ------------------------------------------------------------------------
\* Properties of the PDF service
\* ------------------------------------------------------------------------
\* C15: validatePDF(buffer) is valid exactly when the first four bytes are
\* %PDF and the length is at most 10 MiB, that length included; a buffer
\* that does not start with %PDF (shorter than four bytes, or longer than
\* 10 MiB, included) is rejected with 'Invalid PDF format', and one that
\* starts with %PDF and is longer than 10 MiB with the 'too large' reason.
C15_ValidatePDFExact ==
    input.applied =>
        LET buffer == input.arg
            startsWithHeader == Len(buffer.head) = 4 /\ buffer.head = <<"%", "P", "D", "F">>
        IN  /\ output.isValid <=> (startsWithHeader /\ buffer.length <= 10 * 1024 * 1024)
            /\ output.isValid => output.error = NoError
            /\ ~startsWithHeader =>
                  ~output.isValid /\ output.error = "Invalid PDF format"
            /\ (startsWithHeader /\ buffer.length > 10 * 1024 * 1024) =>
                  ~output.isValid /\ output.error = "PDF file too large (max 10MB)"

\* C15 witness: a buffer that starts with %PDF and is exactly 10 MiB long was
\* found valid.
C15_Witness ==
    /\ input.applied
    /\ input.arg.head = PdfHeader /\ input.arg.length = 10 * 1024 * 1024
    /\ output.isValid

\* C16: the text cleanText returns holds no line break, no two whitespace
\* characters in a row and no whitespace at its start or end, and cleanText
\* applied to it returns it unchanged.
C16_CleanTextIdempotent ==
    /\ input.applied >= 1 =>
          LET text == output.first
              white(i) == text[i] \in { " ", "\t", "\r", "\n" }
          IN  /\ \A i \in 1..Len(text) : text[i] \notin { "\r", "\n" }
              /\ \A i \in 1..(Len(text) - 1) : ~(white(i) /\ white(i + 1))
              /\ text # <<>> => ~white(1) /\ ~white(Len(text))
    /\ input.applied = 2 => output.second = output.first

\* C16 witness: the text " a\r\nb " was cleaned to "a b", and cleaned again.
C16_Witness ==
    /\ input.applied = 2
    /\ input.arg = <<SPACE, "a", CR, LF, "b">>
    /\ output.first = <<"a", SPACE, "b">>

\* C17: a call whose admission check was rejected has sent no request and
\* has ended with an INTERNAL_SERVER_ERROR (not a BAD_REQUEST) whose message
\* is the very reason canMakeRequest returned.
C17_RejectedNotSent ==
    /\ [](\A c \in Calls :
            (call[c].limiterChecks > 0 /\ ~call[c].admitted) =>
                /\ call[c].pc = "done" /\ call[c].status = "error"
                /\ call[c].code = "INTERNAL_SERVER_ERROR"
                /\ call[c].message \in LimiterErrors
                /\ call[c].posts = 0 /\ call[c].gateway = "none")
    /\ [][\A c \in Calls :
            (call'[c].limiterChecks > call[c].limiterChecks /\ ~call'[c].admitted) =>
                /\ last'.op = "canMakeRequest" /\ ~last'.allowed
                /\ call'[c].message = <<last'.error>>]_vars

\* C17 witness: after one call was admitted, another was rejected for the
\* hour limit and sent nothing.
C17_Witness ==
    \E c \in Calls, d \in Calls :
        /\ call[d].admitted /\ call[d].posts = 1
        /\ call[c].limiterChecks = 1 /\ ~call[c].admitted
        /\ call[c].message = <<HourLimitError>>
        /\ call[c].code = "INTERNAL_SERVER_ERROR" /\ call[c].posts = 0

\* ------------------------------------------------------------------------
\* Re-admission by the rate limiter
\* ------------------------------------------------------------------------
\* The identifier is below both limits at the present instant.
Admissible(id) ==
    /\ Younger(recorded[id], minuteWindow, now) < minuteLimit
    /\ Younger(recorded[id], hourWindow, now) < hourLimit

\* The requests array of an identifier (empty when it has no window).
RequestsOf(ws, id) == IF id \in DOMAIN ws THEN ws[id].requests ELSE <<>>

\* C18: a canMakeRequest(id) that follows a rejection of id for the minute
\* limit is allowed when, at the clock read of its minute filter, the oldest
\* timestamp that rejection counted is 60000 ms old or more and the hour
\* count is below 300, and is rejected again, with the same oldest counted
\* timestamp, while that timestamp is younger; a rejected call records no
\* timestamp; and with the clock advancing every rejected identifier is
\* below both limits again at some later instant.
C18_ReadmittedAfterWindow ==
    /\ []((last.op = "canMakeRequest" /\ last.prevRejected) =>
            /\ (/\ last.t2 - last.prevOldest >= minuteWindow
                /\ Younger(BeforeLast, hourWindow, last.t1) < hourLimit)
                  => last.allowed
            /\ last.t2 - last.prevOldest < minuteWindow =>
                  /\ ~last.allowed /\ last.error = MinuteLimitError
                  /\ OldestYounger(recorded[last.id], minuteWindow, last.t2)
                        = last.prevOldest)
    /\ [][(last'.op = "canMakeRequest" /\ ops' # ops /\ ~last'.allowed) =>
            /\ recorded' = recorded
            /\ Len(RequestsOf(windows', last'.id)) <= Len(RequestsOf(windows, last'.id))
            /\ Timestamps(RequestsOf(windows', last'.id))
                  \subseteq Timestamps(RequestsOf(windows, last'.id))]_vars
    /\ \A id \in Identifiers :
          (last.op = "canMakeRequest" /\ last.id = id /\ ~last.allowed) ~> Admissible(id)

\* C18 witness: an identifier rejected for the minute limit was allowed by
\* the next call, made at the instant the oldest counted timestamp became
\* exactly 60000 ms old.
C18_Witness ==
    /\ last.op = "canMakeRequest" /\ last.prevRejected /\ last.allowed
    /\ last.t2 - last.prevOldest = minuteWindow
    /\ last.t0 = last.t2

\* ------------------------------------------------------------------------
\* Rate-limit slots and the analyze calls
\* ------------------------------------------------------------------------
\* Call c failed at document validation, text extraction, the empty-text
\* check or the credential check.
EarlyFailure(c) ==
    /\ call[c].status = "error"
    /\ \/ call[c].code = "BAD_REQUEST"
       \/ call[c].message = <<"Failed to extract text from PDF: bad XRef entry">>
       \/ call[c].message \in ConfigErrors

\* C19: a call that fails at document validation, text extraction, the
\* empty-text check or the credential check never reached the admission
\* check, and the step in which it fails leaves every rate window (and the
\* recorded timestamps) as they were; a call whose admission was checked
\* had two valid buffers, both extractions and the credential check behind
\* it.
C19_EarlyFailureKeepsWindows ==
    /\ [](\A c \in Calls :
            /\ EarlyFailure(c) =>
                  /\ call[c].limiterChecks = 0 /\ ~call[c].admitted
                  /\ call[c].posts = 0
            /\ call[c].limiterChecks > 0 =>
                  /\ ~EarlyFailure(c)
                  /\ WellFormed(call[c].jobDescription) /\ WellFormed(call[c].cv)
                  /\ call[c].extractCalls = 2 /\ call[c].configChecks = 1
                  /\ CredentialSet)
    /\ [][\A c \in Calls :
            (call[c].status # "error" /\ call'[c].status = "error"
             /\ call'[c].limiterChecks = 0) =>
                (windows' = windows /\ recorded' = recorded)]_vars

\* C19 witness: one call failed on a text without readable characters and
\* another on the extraction, and the limiter was never called.
C19_Witness ==
    \E c \in Calls, d \in Calls :
        /\ call[c].status = "error" /\ call[c].code = "BAD_REQUEST"
        /\ call[c].extractCalls = 2
        /\ call[d].status = "error"
        /\ call[d].message = <<"Failed to extract text from PDF: bad XRef entry">>
        /\ last = NoCall
        /\ recorded = HistoryOf(windows)

\* Number of occurrences of t in the sequence.
Occurrences(requests, t) == Cardinality({ i \in 1..Len(requests) : requests[i] = t })

\* C20: an admitted call consumes exactly one slot, whatever becomes of its
\* request: the step that admits it appends its timestamp (once) before the
\* request has ended, no other step adds a timestamp, the step in which the
\* request ends, well or badly, leaves the windows as they are, and the
\* timestamp of every admitted call, failed ones included, stays in the
\* window of the default identifier for an hour.
C20_AdmittedCallKeepsSlot ==
    /\ [](\A c \in Calls :
            call[c].admitted =>
                /\ call[c].posts = 1 /\ call[c].limiterChecks = 1
                /\ now - call[c].timestamp < hourWindow =>
                      Occurrences(RequestsOf(windows, DefaultIdentifier), call[c].timestamp)
                         >= Cardinality({ d \in Calls : /\ call[d].admitted
                                                        /\ call[d].timestamp = call[c].timestamp }))
    /\ [][\A c \in Calls :
            (~call[c].admitted /\ call'[c].admitted) =>
                /\ recorded'[DefaultIdentifier] =
                      Append(recorded[DefaultIdentifier], call'[c].timestamp)
                /\ call'[c].pc = "posting" /\ call'[c].gateway = "none"]_vars
    /\ [][recorded' # recorded =>
            \E c \in Calls : ~call[c].admitted /\ call'[c].admitted]_vars
    /\ [][\A c \in Calls :
            (call[c].pc = "posting" /\ call'[c].pc # "posting") =>
                (windows' = windows /\ recorded' = recorded)]_vars

\* C20 witness: a call was admitted and its request ended with a remote
\* 429; less than a minute after its timestamp another call was rejected
\* for the minute limit.
C20_Witness ==
    \E c \in Calls, d \in Calls :
        /\ call[c].admitted /\ call[c].status = "error" /\ call[c].gateway = "429"
        /\ call[d].status = "error" /\ call[d].message = <<MinuteLimitError>>
        /\ last.op = "canMakeRequest" /\ ~last.allowed
        /\ last.t2 - call[c].timestamp < minuteWindow
        /\ last.t0 > call[c].timestamp

====
